---- MODULE Spec2Model ----
(***************************************************************************)
(* Model of pkg/client/apiutil/dynamicrestmapper.go (dynamicRESTMapper,    *)
(* dynamicLimiter) and pkg/client/client_cache.go (clientCache).           *)
(*                                                                         *)
(* Callers are goroutines.  Each caller is either idle, running one of the *)
(* seven RESTMapper query methods, or running clientCache.getResource,     *)
(* which calls RESTMapping from inside newResource.                        *)
(*                                                                         *)
(* Time is counted in ticks; one tick is the refill period of one limiter  *)
(* token (1/rate seconds), so token counts stay integral.                  *)
(***************************************************************************)
EXTENDS Integers, Sequences, FiniteSets, TLC

\* ------------------------------------------------------------- bounds ---
NumCallers == 2
MaxTime == 2
MaxClients == 3
\* burst of the rate.Limiter behind the dynamicLimiter (WithLimiter)
LimitSize == 2

\* tokens the limiter regains per second: defaultRefillRate and
\* defaultLimitSize are the same number
RefillRate == LimitSize

Callers == 1..NumCallers
NoCaller == 0

Nil == "nil"
Inf == 1000

\* ------------------------------------------------------ identifiers ---
Widget == <<"W", "i", "d", "g", "e", "t">>
Gadget == <<"G", "a", "d", "g", "e", "t">>
ListSuffix == <<"L", "i", "s", "t">>
WidgetList == Widget \o ListSuffix

\* kinds the directory can describe
Ids == {Widget, Gadget}

\* what the directory says about one kind: nothing, one mapping (resource
\* identifier and scope), or several candidates
Absent == "absent"
Ambiguous == "ambiguous"
Mappings == {"m1", "m2"}
Entries == {Absent, Ambiguous} \cup Mappings

\* a meta.RESTMapper built by newMapper(): one complete directory snapshot.
\* Widget is a type that can be installed, changed and removed while the
\* process runs; Gadget is a type the API server serves at all times.
Snapshots == {s \in [Ids -> Entries] : s[Gadget] = "m1"}

\* the nil values of the types involved
NoMapper == [id \in Ids |-> Nil]
NoReservation == [ok |-> FALSE, tokens |-> 0, timeToAct |-> 0]
NoResource == [client |-> 0, mapping |-> Nil, gvk |-> <<>>]
NoObject == [kind |-> <<>>, isList |-> FALSE]

\* the seven query methods
Ops == {"KindFor", "KindsFor", "ResourceFor", "ResourcesFor",
        "RESTMapping", "RESTMappings", "ResourceSingularizer"}

\* the error a method's callback returns for an identifier the snapshot does
\* not know: *meta.NoKindMatchError for RESTMapping and RESTMappings,
\* *meta.NoResourceMatchError for the others.  It is of the type of the
\* needsReloadErr that the method passes to checkAndReload.
NoMatchError == "NoMatchError"

VARIABLES
    built,          \* "none" | "ready" | "failed": NewDynamicRESTMapper
    lazy,           \* drm.lazy
    staticMapper,   \* drm.staticMapper: NoMapper or a snapshot
    initOnce,       \* drm.initOnce: "fresh" | "running" | "done"
    initErr,        \* outcome of the closure run by initOnce
    muReaders,      \* drm.mu: callers holding RLock
    muWriter,       \* drm.mu: caller holding Lock, or NoCaller
    limiter,        \* drm.limiter: [tokens, last, lastEvent]
    now,            \* time.Now()
    fetchLog,       \* per instant, the newMapper() calls checkAndReload made
    pc,             \* position of each caller
    loc,            \* locals of each caller's current call
    peers,          \* per caller, the callers that waited for drm.mu.Lock
                    \* together with it after the same "not found"
    resourceByType, \* clientCache.resourceByType
    cmuWriter,      \* clientCache.mu: caller holding Lock, or NoCaller
    clientCount     \* number of REST clients constructed so far

vars == <<built, lazy, staticMapper, initOnce, initErr, muReaders, muWriter,
          limiter, now, fetchLog, pc, loc,
          peers, resourceByType, cmuWriter, clientCount>>

mapperVars == <<built, lazy, staticMapper, initOnce, initErr, muReaders,
                muWriter, limiter>>
cacheVars == <<resourceByType, cmuWriter, clientCount>>

\* typed values getResource is called with; Unknown is not in the scheme
Unknown == <<"U">>
Registered == {Widget, WidgetList, Gadget}
Objects == {[kind |-> Widget, isList |-> FALSE],
            [kind |-> WidgetList, isList |-> TRUE],
            [kind |-> Gadget, isList |-> FALSE],
            [kind |-> Unknown, isList |-> FALSE]}

\* locals of one call.  ret is the source line of the return statement that
\* produced the call's result; initRole is the caller's part in
\* initOnce.Do; fetched and rebuilt count the newMapper() calls and the
\* snapshot replacements checkAndReload made in this call.
NoLoc == [op |-> "none", q |-> <<>>, err |-> Nil, val |-> Nil,
          ret |-> Nil, res |-> NoReservation, delay |-> 0, fetched |-> 0,
          rebuilt |-> 0, initRole |-> "none", obj |-> NoObject, client |-> 0,
          r |-> NoResource]

\* ------------------------------------------------------- rate.Limiter ---
Min(a, b) == IF a < b THEN a ELSE b
Max(a, b) == IF a > b THEN a ELSE b

\* Limiter.advance: tokens the bucket holds at time t
advance(lim, t) ==
    LET last == Min(lim.last, t)
        maxElapsed == LimitSize - lim.tokens
        elapsed == Min(t - last, maxElapsed)
    IN  Min(LimitSize, lim.tokens + elapsed)

\* Limiter.Reserve(): reserveN(now, fetchLog, 1, InfDuration)
Reserve(lim, t) ==
    LET tokens == advance(lim, t) - 1
        waitDuration == IF tokens < 0 THEN 0 - tokens ELSE 0
        ok == 1 <= LimitSize
        r == [ok |-> ok, tokens |-> IF ok THEN 1 ELSE 0,
              timeToAct |-> IF ok THEN t + waitDuration ELSE 0]
    IN  [res |-> r,
         lim |-> IF ok THEN [tokens |-> tokens, last |-> t,
                             lastEvent |-> r.timeToAct]
                 ELSE lim]

\* Reservation.Delay(): DelayFrom(time.Now())
Delay(r, t) ==
    IF ~r.ok THEN Inf ELSE Max(0, r.timeToAct - t)

\* Reservation.Cancel(): CancelAt(time.Now())
Cancel(lim, r, t) ==
    IF ~r.ok \/ r.tokens = 0 \/ r.timeToAct < t THEN lim
    ELSE LET restoreTokens == r.tokens - (lim.lastEvent - r.timeToAct)
         IN  IF restoreTokens <= 0 THEN lim
             ELSE LET tokens == Min(LimitSize, advance(lim, t) + restoreTokens)
                      prevEvent == r.timeToAct - r.tokens
                  IN  [tokens |-> tokens, last |-> t,
                       lastEvent |-> IF r.timeToAct = lim.lastEvent
                                        /\ prevEvent >= t
                                     THEN prevEvent ELSE lim.lastEvent]

\* ---------------------------------------------------------- queries ---
\* the callback passed to checkAndReload: drm.staticMapper.<op>(q)
Lookup(snap, q) ==
    CASE snap[q] = Absent -> [err |-> NoMatchError, val |-> Nil]
      [] snap[q] = Ambiguous -> [err |-> "AmbiguousError", val |-> Nil]
      [] OTHER -> [err |-> Nil, val |-> snap[q]]

\* a needsReload test that sends every call on to drm.mu.Lock
ErrorsAsAlways(err, needsReloadErr) == TRUE

\* errors.As(err, &needsReloadErr).  The parameter needsReloadErr is declared
\* with the interface type error, so the target type is error and every
\* non-nil error is assignable to it, whatever value needsReloadErr holds.
ErrorsAs(err, needsReloadErr) == err # Nil

\* ------------------------------------------------------------- Init ---
Init ==
    /\ built = "none"
    /\ lazy = FALSE
    /\ staticMapper = NoMapper
    /\ initOnce = "fresh"
    /\ initErr = Nil
    /\ muReaders = {}
    /\ muWriter = NoCaller
    /\ limiter = [tokens |-> LimitSize, last |-> 0, lastEvent |-> 0]
    /\ now = 0
    /\ fetchLog = [t \in 0..MaxTime |-> 0]
    /\ pc = [c \in Callers |-> "idle"]
    /\ loc = [c \in Callers |-> NoLoc]
    /\ peers = [c \in Callers |-> {}]
    /\ resourceByType = [k \in Registered |-> NoResource]
    /\ cmuWriter = NoCaller
    /\ clientCount = 0

\* ------------------------------------------------- dynamicRESTMapper ---
\* what newMapper() can return: a snapshot of whatever the API server
\* describes at that moment, or (nil, err)
NewMapperResults == Snapshots \cup {NoMapper}

\* setStaticMapper assigning drm.staticMapper before it looks at err
setStaticMapperDropsOld(new) ==
    IF new = NoMapper
    THEN [err |-> "FetchError", mapper |-> NoMapper]
    ELSE [err |-> Nil, mapper |-> new]

\* setStaticMapper, given what newMapper() returns
setStaticMapper(new) ==
    IF new = NoMapper
    THEN [err |-> "FetchError", mapper |-> staticMapper]
    ELSE [err |-> Nil, mapper |-> new]

\* where a finished RESTMapper method hands its result
AfterQuery(c) == IF loc[c].op = "getResource" THEN "mapped" ELSE "done"

\* NewDynamicRESTMapper with WithLazyDiscovery
NewLazy ==
    /\ built = "none"
    /\ built' = "ready"
    /\ lazy' = TRUE
    /\ UNCHANGED <<staticMapper, initOnce, initErr, muReaders, muWriter,
                   limiter, now, fetchLog, pc, loc, peers, cacheVars>>

\* NewDynamicRESTMapper returning drm although setStaticMapper failed
NewEagerIgnoresError(new) ==
    /\ built = "none"
    /\ LET s == setStaticMapper(new)
       IN  /\ staticMapper' = s.mapper
           /\ built' = "ready"
    /\ UNCHANGED <<lazy, initOnce, initErr, muReaders, muWriter, limiter,
                   now, fetchLog, pc, loc, peers,
                   cacheVars>>

\* NewDynamicRESTMapper without options
NewEager(new) ==
    /\ built = "none"
    /\ LET s == setStaticMapper(new)
       IN  /\ staticMapper' = s.mapper
           /\ built' = IF s.err = Nil THEN "ready" ELSE "failed"
    /\ UNCHANGED <<lazy, initOnce, initErr, muReaders, muWriter, limiter,
                   now, fetchLog, pc, loc, peers,
                   cacheVars>>

\* callers are interchangeable: a new call runs on the first idle one
FirstIdle(c) ==
    /\ pc[c] = "idle"
    /\ \A d \in Callers : d < c => pc[d] # "idle"

\* a caller enters one of the seven query methods
Query(c, op, q) ==
    /\ built = "ready"
    /\ FirstIdle(c)
    /\ op \in Ops
    /\ loc' = [loc EXCEPT ![c] = [NoLoc EXCEPT !.op = "query", !.q = q]]
    /\ pc' = [pc EXCEPT ![c] = "init"]
    /\ UNCHANGED <<mapperVars, now, fetchLog, peers,
                   cacheVars>>

\* drm.init(): initOnce.Do entered by the first caller, who runs the closure
InitEnter(c) ==
    /\ pc[c] = "init"
    /\ initOnce = "fresh"
    /\ initOnce' = "running"
    /\ pc' = [pc EXCEPT ![c] = "initRun"]
    /\ loc' = [loc EXCEPT ![c].initRole = "ran"]
    /\ UNCHANGED <<built, lazy, staticMapper, initErr, muReaders, muWriter,
                   limiter, now, fetchLog, peers, cacheVars>>

\* an initOnce that lets a second caller through while the closure runs
InitNoBlock(c) ==
    /\ pc[c] = "init"
    /\ initOnce = "running"
    /\ pc' = [pc EXCEPT ![c] = "rlock"]
    /\ loc' = [loc EXCEPT ![c].initRole = "waited"]
    /\ UNCHANGED <<mapperVars, now, fetchLog, peers, cacheVars>>

\* drm.init(): initOnce.Do entered while the closure runs; the caller blocks
InitBlock(c) ==
    /\ pc[c] = "init"
    /\ initOnce = "running"
    /\ pc' = [pc EXCEPT ![c] = "initWait"]
    /\ loc' = [loc EXCEPT ![c].initRole = "waited"]
    /\ UNCHANGED <<mapperVars, now, fetchLog, peers, cacheVars>>

\* drm.init(): initOnce.Do entered after the closure has run; it returns at
\* once and the caller's err is nil
InitSkip(c) ==
    /\ pc[c] = "init"
    /\ initOnce = "done"
    /\ pc' = [pc EXCEPT ![c] = "rlock"]
    /\ UNCHANGED <<mapperVars, now, fetchLog, loc, peers, cacheVars>>

\* the closure of initOnce.Do, run by the first caller
InitRun(c, new) ==
    /\ pc[c] = "initRun"
    /\ initOnce' = "done"
    /\ IF lazy
       THEN LET s == setStaticMapper(new)
            IN  /\ staticMapper' = s.mapper
                /\ initErr' = s.err
                /\ IF s.err # Nil
                   THEN /\ loc' = [loc EXCEPT ![c].err = s.err,
                                              ![c].ret = "init"]
                        /\ pc' = [pc EXCEPT ![c] = AfterQuery(c)]
                   ELSE /\ pc' = [pc EXCEPT ![c] = "rlock"]
                        /\ UNCHANGED loc
       ELSE /\ new = NoMapper
            /\ pc' = [pc EXCEPT ![c] = "rlock"]
            /\ UNCHANGED <<staticMapper, initErr, loc>>
    /\ UNCHANGED <<built, lazy, muReaders, muWriter, limiter, now, fetchLog, peers, cacheVars>>

\* a caller blocked in initOnce.Do returns once the closure has run; its own
\* named result err was never assigned
InitWait(c) ==
    /\ pc[c] = "initWait"
    /\ initOnce = "done"
    /\ pc' = [pc EXCEPT ![c] = "rlock"]
    /\ UNCHANGED <<mapperVars, now, fetchLog, loc, peers, cacheVars>>

\* a drm.mu.RLock() that does not wait for the holder of Lock
RLockNoWait(c) ==
    /\ pc[c] = "rlock"
    /\ muReaders' = muReaders \cup {c}
    /\ pc' = [pc EXCEPT ![c] = "rcheck"]
    /\ UNCHANGED <<built, lazy, staticMapper, initOnce, initErr, muWriter,
                   limiter, now, fetchLog, loc, peers, cacheVars>>

\* checkAndReload: drm.mu.RLock()
RLock(c) ==
    /\ pc[c] = "rlock"
    /\ muWriter = NoCaller
    /\ muReaders' = muReaders \cup {c}
    /\ pc' = [pc EXCEPT ![c] = "rcheck"]
    /\ UNCHANGED <<built, lazy, staticMapper, initOnce, initErr, muWriter,
                   limiter, now, fetchLog, loc, peers, cacheVars>>

\* callers that got "not found" under RLock and wait for Lock with the same
\* query as c
WaitingWith(c) ==
    {d \in Callers \ {c} : /\ pc[d] = "wlock"
                           /\ loc[d].q = loc[c].q
                           /\ loc[d].err = NoMatchError}

\* checkAndReload: the callback under RLock, RUnlock, and the first
\* needsReload test.  A nil staticMapper makes the callback panic; the
\* deferred unlocks run.
SharedCheck(c) ==
    /\ pc[c] = "rcheck"
    /\ muReaders' = muReaders \ {c}
    /\ IF staticMapper = NoMapper
       THEN /\ pc' = [pc EXCEPT ![c] = "panicked"]
            /\ cmuWriter' = IF cmuWriter = c THEN NoCaller ELSE cmuWriter
            /\ UNCHANGED <<loc, peers>>
       ELSE LET r == Lookup(staticMapper, loc[c].q)
            IN  /\ UNCHANGED cmuWriter
                /\ IF ErrorsAs(r.err, NoMatchError)
                   THEN /\ pc' = [pc EXCEPT ![c] = "wlock"]
                        /\ loc' = [loc EXCEPT ![c].err = r.err]
                        /\ peers' = [d \in Callers |->
                                        IF r.err # NoMatchError THEN peers[d]
                                        ELSE IF d = c THEN WaitingWith(c)
                                        ELSE IF d \in WaitingWith(c)
                                             THEN peers[d] \cup {c}
                                             ELSE peers[d]]
                   ELSE /\ pc' = [pc EXCEPT ![c] = AfterQuery(c)]
                        /\ loc' = [loc EXCEPT ![c].err = r.err,
                                              ![c].val = r.val,
                                              ![c].ret = "shared"]
                        /\ UNCHANGED peers
    /\ UNCHANGED <<built, lazy, staticMapper, initOnce, initErr, muWriter,
                   limiter, now, fetchLog, resourceByType, clientCount>>

\* checkAndReload: drm.mu.Lock()
Lock(c) ==
    /\ pc[c] = "wlock"
    /\ muWriter = NoCaller
    /\ muReaders = {}
    /\ muWriter' = c
    /\ pc' = [pc EXCEPT ![c] = "wcheck"]
    /\ UNCHANGED <<built, lazy, staticMapper, initOnce, initErr, muReaders,
                   limiter, now, fetchLog, loc, peers, cacheVars>>

\* checkAndReload without the second look under Lock
ExclusiveCheckNoRecheck(c) ==
    /\ pc[c] = "wcheck"
    /\ pc' = [pc EXCEPT ![c] = "reserve"]
    /\ UNCHANGED <<mapperVars, now, fetchLog, loc, peers, cacheVars>>

\* checkAndReload: the callback again under Lock and the second needsReload
\* test
ExclusiveCheck(c) ==
    /\ pc[c] = "wcheck"
    /\ LET r == Lookup(staticMapper, loc[c].q)
       IN  IF ErrorsAs(r.err, NoMatchError)
           THEN /\ pc' = [pc EXCEPT ![c] = "reserve"]
                /\ loc' = [loc EXCEPT ![c].err = r.err]
                /\ UNCHANGED muWriter
           ELSE /\ pc' = [pc EXCEPT ![c] = AfterQuery(c)]
                /\ loc' = [loc EXCEPT ![c].err = r.err,
                                      ![c].val = r.val,
                                      ![c].ret = "exclusive"]
                /\ muWriter' = NoCaller
    /\ UNCHANGED <<built, lazy, staticMapper, initOnce, initErr, muReaders,
                   limiter, now, fetchLog, peers, cacheVars>>

\* checkRate: res := b.Reserve()
CheckRateReserve(c) ==
    /\ pc[c] = "reserve"
    /\ LET rr == Reserve(limiter, now)
       IN  /\ limiter' = rr.lim
           /\ loc' = [loc EXCEPT ![c].res = rr.res]
    /\ pc' = [pc EXCEPT ![c] = "delay"]
    /\ UNCHANGED <<built, lazy, staticMapper, initOnce, initErr, muReaders,
                   muWriter, now, fetchLog, peers, cacheVars>>

\* checkRate: if res.Delay() == 0 { return nil }
CheckRateDelay(c) ==
    /\ pc[c] = "delay"
    /\ IF Delay(loc[c].res, now) = 0
       THEN /\ pc' = [pc EXCEPT ![c] = "reload"]
            /\ loc' = [loc EXCEPT ![c].res = NoReservation]
       ELSE /\ pc' = [pc EXCEPT ![c] = "cancel"]
            /\ UNCHANGED loc
    /\ UNCHANGED <<mapperVars, now, fetchLog, peers, cacheVars>>

\* checkRate: res.Cancel()
CheckRateCancel(c) ==
    /\ pc[c] = "cancel"
    /\ limiter' = Cancel(limiter, loc[c].res, now)
    /\ pc' = [pc EXCEPT ![c] = "denied"]
    /\ UNCHANGED <<built, lazy, staticMapper, initOnce, initErr, muReaders,
                   muWriter, now, fetchLog, loc, peers, cacheVars>>

\* checkRate: return ErrRateLimited{res.Delay()}, returned by checkAndReload
CheckRateDenied(c) ==
    /\ pc[c] = "denied"
    /\ loc' = [loc EXCEPT ![c].err = "ErrRateLimited",
                          ![c].delay = Delay(loc[c].res, now),
                          ![c].res = NoReservation,
                          ![c].ret = "ratelimit"]
    /\ muWriter' = NoCaller
    /\ pc' = [pc EXCEPT ![c] = AfterQuery(c)]
    /\ UNCHANGED <<built, lazy, staticMapper, initOnce, initErr, muReaders,
                   limiter, now, fetchLog, peers, cacheVars>>

\* checkAndReload returning the stale error after a reload instead of
\* calling the callback again
ReloadNoRecheck(c, new) ==
    /\ pc[c] = "reload"
    /\ LET s == setStaticMapper(new)
       IN  /\ staticMapper' = s.mapper
           /\ loc' = [loc EXCEPT
                        ![c].err = IF s.err # Nil THEN s.err ELSE @,
                        ![c].fetched = @ + 1,
                        ![c].rebuilt = IF s.err # Nil THEN @ ELSE @ + 1,
                        ![c].ret = "reload"]
    /\ muWriter' = NoCaller
    /\ pc' = [pc EXCEPT ![c] = AfterQuery(c)]
    /\ fetchLog' = [fetchLog EXCEPT ![now] = @ + 1]
    /\ UNCHANGED <<built, lazy, initOnce, initErr, muReaders, limiter, now,
                   peers, cacheVars>>

\* checkAndReload: drm.setStaticMapper() under Lock
Reload(c, new) ==
    /\ pc[c] = "reload"
    /\ LET s == setStaticMapper(new)
       IN  /\ staticMapper' = s.mapper
           /\ IF s.err # Nil
              THEN /\ loc' = [loc EXCEPT ![c].err = s.err,
                                         ![c].fetched = @ + 1,
                                         ![c].ret = "reload"]
                   /\ muWriter' = NoCaller
                   /\ pc' = [pc EXCEPT ![c] = AfterQuery(c)]
              ELSE /\ loc' = [loc EXCEPT ![c].fetched = @ + 1,
                                         ![c].rebuilt = @ + 1]
                   /\ pc' = [pc EXCEPT ![c] = "final"]
                   /\ UNCHANGED muWriter
    /\ fetchLog' = [fetchLog EXCEPT ![now] = @ + 1]
    /\ UNCHANGED <<built, lazy, initOnce, initErr, muReaders, limiter, now,
                   peers, cacheVars>>

\* checkAndReload: return checkNeedsReload()
FinalCheck(c) ==
    /\ pc[c] = "final"
    /\ LET r == Lookup(staticMapper, loc[c].q)
       IN  loc' = [loc EXCEPT ![c].err = r.err, ![c].val = r.val,
                              ![c].ret = "final"]
    /\ muWriter' = NoCaller
    /\ pc' = [pc EXCEPT ![c] = AfterQuery(c)]
    /\ UNCHANGED <<built, lazy, staticMapper, initOnce, initErr, muReaders,
                   limiter, now, fetchLog, peers, cacheVars>>

\* the caller has its result and leaves
Return(c) ==
    /\ pc[c] = "done"
    /\ pc' = [pc EXCEPT ![c] = "idle"]
    /\ loc' = [loc EXCEPT ![c] = NoLoc]
    /\ peers' = [d \in Callers |-> IF d = c THEN {} ELSE peers[d] \ {c}]
    /\ UNCHANGED <<mapperVars, now, fetchLog, cacheVars>>

\* ------------------------------------------------------ environment ---
\* time passes
Tick ==
    /\ now < MaxTime
    /\ now' = now + 1
    /\ UNCHANGED <<mapperVars, fetchLog, pc,
                   loc, peers, cacheVars>>

\* ------------------------------------------------------ clientCache ---
HasSuffix(s, suffix) ==
    /\ Len(s) >= Len(suffix)
    /\ SubSeq(s, Len(s) - Len(suffix) + 1, Len(s)) = suffix

\* newResource: the kind the resource is built for
newResourceKind(kind, isList) ==
    IF HasSuffix(kind, ListSuffix) /\ isList
    THEN SubSeq(kind, 1, Len(kind) - 4)
    ELSE kind

\* getResource entered: apiutil.GVKForObject
GetResource(c, obj) ==
    /\ built = "ready"
    /\ FirstIdle(c)
    /\ IF obj.kind \in Registered
       THEN /\ loc' = [loc EXCEPT ![c] = [NoLoc EXCEPT !.op = "getResource",
                                                      !.obj = obj]]
            /\ pc' = [pc EXCEPT ![c] = "lookup"]
       ELSE /\ loc' = [loc EXCEPT ![c] = [NoLoc EXCEPT !.op = "getResource",
                                                      !.obj = obj,
                                                      !.err = "GVKError",
                                                      !.ret = "gvk"]]
            /\ pc' = [pc EXCEPT ![c] = "done"]
    /\ UNCHANGED <<mapperVars, now, fetchLog, peers,
                   cacheVars>>

\* getResource that does not return on a known type
CacheLookupMiss(c) ==
    /\ pc[c] = "lookup"
    /\ cmuWriter = NoCaller
    /\ pc' = [pc EXCEPT ![c] = "clock"]
    /\ UNCHANGED <<mapperVars, now, fetchLog, loc, peers, cacheVars>>

\* getResource: c.mu.RLock(); r, known := c.resourceByType[gvk];
\* c.mu.RUnlock(); if known { return r, nil }
CacheLookup(c) ==
    /\ pc[c] = "lookup"
    /\ cmuWriter = NoCaller
    /\ LET r == resourceByType[loc[c].obj.kind]
       IN  IF r # NoResource
           THEN /\ loc' = [loc EXCEPT ![c].r = r, ![c].ret = "hit"]
                /\ pc' = [pc EXCEPT ![c] = "done"]
           ELSE /\ pc' = [pc EXCEPT ![c] = "clock"]
                /\ UNCHANGED loc
    /\ UNCHANGED <<mapperVars, now, fetchLog, peers, cacheVars>>

\* getResource: c.mu.Lock()
CacheLock(c) ==
    /\ pc[c] = "clock"
    /\ cmuWriter = NoCaller
    /\ cmuWriter' = c
    /\ pc' = [pc EXCEPT ![c] = "restClient"]
    /\ UNCHANGED <<mapperVars, now, fetchLog, loc, peers, resourceByType, clientCount>>

\* newResource: the List suffix is stripped and apiutil.RESTClientForGVK
\* is called; on success c.mapper.RESTMapping is entered
RESTClientForGVK(c, ok) ==
    /\ pc[c] = "restClient"
    /\ IF ok
       THEN /\ clientCount < MaxClients
            /\ clientCount' = clientCount + 1
            /\ loc' = [loc EXCEPT
                         ![c].client = clientCount + 1,
                         ![c].q = newResourceKind(loc[c].obj.kind,
                                                  loc[c].obj.isList)]
            /\ pc' = [pc EXCEPT ![c] = "init"]
            /\ UNCHANGED cmuWriter
       ELSE /\ loc' = [loc EXCEPT ![c].err = "ClientError",
                                  ![c].ret = "client"]
            /\ cmuWriter' = NoCaller
            /\ pc' = [pc EXCEPT ![c] = "done"]
            /\ UNCHANGED clientCount
    /\ UNCHANGED <<mapperVars, now, fetchLog, peers, resourceByType>>

\* getResource storing r before it looks at err
StoreResourceAlways(c) ==
    /\ pc[c] = "mapped"
    /\ LET r == [client |-> loc[c].client, mapping |-> loc[c].val,
                 gvk |-> loc[c].q]
       IN  /\ resourceByType' = [resourceByType EXCEPT ![loc[c].obj.kind] = r]
           /\ IF loc[c].err # Nil
              THEN loc' = [loc EXCEPT ![c].ret = "mapping"]
              ELSE loc' = [loc EXCEPT ![c].r = r, ![c].ret = "stored"]
    /\ cmuWriter' = NoCaller
    /\ pc' = [pc EXCEPT ![c] = "done"]
    /\ UNCHANGED <<mapperVars, now, fetchLog, peers, clientCount>>

\* getResource that looks at the table again under c.mu.Lock and returns the
\* entry another caller stored meanwhile
StoreResourceKeepsFirst(c) ==
    /\ pc[c] = "mapped"
    /\ IF loc[c].err # Nil
       THEN /\ loc' = [loc EXCEPT ![c].ret = "mapping"]
            /\ UNCHANGED resourceByType
       ELSE IF resourceByType[loc[c].obj.kind] # NoResource
       THEN /\ loc' = [loc EXCEPT ![c].r = resourceByType[loc[c].obj.kind],
                                  ![c].ret = "stored"]
            /\ UNCHANGED resourceByType
       ELSE LET r == [client |-> loc[c].client, mapping |-> loc[c].val,
                      gvk |-> loc[c].q]
            IN  /\ resourceByType' =
                       [resourceByType EXCEPT ![loc[c].obj.kind] = r]
                /\ loc' = [loc EXCEPT ![c].r = r, ![c].ret = "stored"]
    /\ cmuWriter' = NoCaller
    /\ pc' = [pc EXCEPT ![c] = "done"]
    /\ UNCHANGED <<mapperVars, now, fetchLog, peers, clientCount>>

\* newResource returns to getResource once RESTMapping has returned: an
\* error is passed on; otherwise the resourceMeta is stored under the gvk
\* of the object and returned
StoreResource(c) ==
    /\ pc[c] = "mapped"
    /\ IF loc[c].err # Nil
       THEN /\ loc' = [loc EXCEPT ![c].ret = "mapping"]
            /\ UNCHANGED resourceByType
       ELSE LET r == [client |-> loc[c].client, mapping |-> loc[c].val,
                      gvk |-> loc[c].q]
            IN  /\ resourceByType' =
                       [resourceByType EXCEPT ![loc[c].obj.kind] = r]
                /\ loc' = [loc EXCEPT ![c].r = r, ![c].ret = "stored"]
    /\ cmuWriter' = NoCaller
    /\ pc' = [pc EXCEPT ![c] = "done"]
    /\ UNCHANGED <<mapperVars, now, fetchLog, peers, clientCount>>

\* ------------------------------------------------------------- Next ---
\* the steps of a RESTMapper method once it has been entered, but for
\* waiting in initOnce.Do
MapperStep(c) ==
    \/ InitEnter(c)
    \/ InitSkip(c)
    \/ \E new \in NewMapperResults : InitRun(c, new)
    \/ RLock(c)
    \/ SharedCheck(c)
    \/ Lock(c)
    \/ ExclusiveCheck(c)
    \/ CheckRateReserve(c)
    \/ CheckRateDelay(c)
    \/ CheckRateCancel(c)
    \/ CheckRateDenied(c)
    \/ \E new \in NewMapperResults : Reload(c, new)
    \/ FinalCheck(c)

\* callers use the RESTMapper directly
NextMapper ==
    \/ NewLazy
    \/ \E new \in NewMapperResults : NewEager(new)
    \/ \E c \in Callers, op \in Ops, q \in Ids : Query(c, op, q)
    \/ \E c \in Callers : MapperStep(c)
    \/ \E c \in Callers : InitBlock(c)
    \/ \E c \in Callers : InitWait(c)
    \/ \E c \in Callers : Return(c)
    \/ Tick

SpecMapper == Init /\ [][NextMapper]_vars

\* callers use the RESTMapper through clientCache.getResource only.
\* getResource calls newResource, and so RESTMapping, with c.mu held, so no
\* caller finds initOnce.Do running.
NextCache ==
    \/ NewLazy
    \/ \E new \in NewMapperResults : NewEager(new)
    \/ \E c \in Callers, obj \in Objects : GetResource(c, obj)
    \/ \E c \in Callers : CacheLookup(c)
    \/ \E c \in Callers : CacheLock(c)
    \/ \E c \in Callers, ok \in BOOLEAN : RESTClientForGVK(c, ok)
    \/ \E c \in Callers : MapperStep(c)
    \/ \E c \in Callers : StoreResource(c)
    \/ \E c \in Callers : Return(c)
    \/ Tick

SpecCache == Init /\ [][NextCache]_vars

\* the steps of a call that has been entered, up to its result
CallStep(c) ==
    \/ MapperStep(c)
    \/ InitBlock(c)
    \/ InitWait(c)
    \/ CacheLookup(c)
    \/ CacheLock(c)
    \/ \E ok \in BOOLEAN : RESTClientForGVK(c, ok)
    \/ StoreResource(c)

\* callers use the RESTMapper directly and through clientCache.getResource,
\* all within one refill period of the limiter
NextBoth ==
    \/ NewLazy
    \/ \E new \in NewMapperResults : NewEager(new)
    \/ \E c \in Callers, op \in Ops, q \in Ids : Query(c, op, q)
    \/ \E c \in Callers, obj \in Objects : GetResource(c, obj)
    \/ \E c \in Callers : CallStep(c)
    \/ \E c \in Callers : Return(c)

\* every call that can take a step does so in the end: goroutines are
\* scheduled, and a goroutine waiting for a sync.RWMutex or in sync.Once.Do
\* is woken when it is released
SpecBoth ==
    /\ Init
    /\ [][NextBoth]_vars
    /\ \A c \in Callers : SF_vars(CallStep(c))

\* ----------------------------------------------------------- claims ---
\* positions in checkAndReload after the second needsReload test and before
\* the reload has replaced the snapshot
PastRecheck == {"reserve", "delay", "cancel", "denied", "reload"}

C2_OnlyNotFoundTakesLock ==
    \A c \in Callers :
        pc[c] \in {"wlock", "wcheck"} => loc[c].err = NoMatchError

\* C3: when the closure of initOnce failed, every caller that ran it or
\* waited for it returns that error and does not go on to checkAndReload.
C3_InitErrorShared ==
    \A c \in Callers :
        (/\ initErr # Nil
         /\ loc[c].initRole # "none"
         /\ pc[c] \notin {"initRun", "initWait"})
            => (pc[c] = "done" /\ loc[c].err = initErr)

\* C4: a call that was refused by checkRate returns ErrRateLimited with a
\* Delay above zero and has made no newMapper() call.
C4_DeniedHasPositiveDelay ==
    \A c \in Callers :
        loc[c].ret = "ratelimit"
            => /\ loc[c].err = "ErrRateLimited"
               /\ loc[c].delay > 0
               /\ loc[c].fetched = 0

\* C5: when newMapper() fails in a reload, the call returns that error and
\* every identifier is answered from the snapshot as before the attempt.
C5_FailedReloadKeepsSnapshot ==
    [][\A c \in Callers :
          (pc[c] = "reload" /\ pc'[c] \notin {"reload", "final"})
              => /\ loc'[c].err = "FetchError"
                 /\ staticMapper' # NoMapper
                 /\ \A q \in Ids :
                        Lookup(staticMapper', q) = Lookup(staticMapper, q)]_vars

\* a reload has failed and Gadget, resolvable before, still is
C5_Witness ==
    \E c \in Callers :
        /\ pc[c] = "done"
        /\ loc[c].ret = "reload"
        /\ loc[c].err = "FetchError"
        /\ Lookup(staticMapper, Gadget).err = Nil

\* C6: checkAndReload calls newMapper() at most once per call, and a call
\* ends with "not found" only from the callback run after its own
\* successful reload.
C6_NotFoundOnlyAfterOwnReload ==
    \A c \in Callers :
        /\ loc[c].fetched <= 1
        /\ (pc[c] = "done" /\ loc[c].err = NoMatchError)
               => /\ loc[c].ret = "final"
                  /\ loc[c].fetched = 1
                  /\ loc[c].rebuilt = 1

\* a call has ended with "not found" after its reload
C6_Witness ==
    \E c \in Callers :
        /\ pc[c] = "done"
        /\ loc[c].err = NoMatchError
        /\ loc[c].rebuilt = 1

\* positions at which a caller has left drm.init() without an error
PastInit == {"rlock", "rcheck", "wlock", "wcheck", "reserve", "delay",
             "cancel", "denied", "reload", "final"}

\* C7: the closure of initOnce is run by one caller, once, and no caller is
\* past drm.init() before it has finished.
C7_InitOnceAndBeforeQueries ==
    [][/\ initOnce = "done" => initOnce' = "done"
       /\ \A c \in Callers :
              (pc[c] = "initRun" /\ pc'[c] # "initRun")
                  => /\ initOnce = "running"
                     /\ initOnce' = "done"
                     /\ \A d \in Callers \ {c} : pc[d] # "initRun"
       /\ \A c \in Callers : pc'[c] \in PastInit => initOnce' = "done"]_vars

\* a caller that waited for the lazy initialisation evaluates its query
\* against the snapshot the initialisation installed
C7_Witness ==
    \E c \in Callers :
        /\ lazy
        /\ loc[c].initRole = "waited"
        /\ pc[c] = "rcheck"
        /\ staticMapper # NoMapper

\* C8: getResource for a type that has an entry returns that entry; it
\* constructs no client, does not enter the RESTMapper, does not take
\* c.mu.Lock and leaves the table as it is.
C8_HitIsReadOnly ==
    [][\A c \in Callers :
          (/\ pc[c] = "lookup"
           /\ pc'[c] # "lookup"
           /\ resourceByType[loc[c].obj.kind] # NoResource)
              => /\ pc'[c] = "done"
                 /\ loc'[c].err = Nil
                 /\ loc'[c].r = resourceByType[loc[c].obj.kind]
                 /\ UNCHANGED <<cacheVars, mapperVars>>]_vars

\* a getResource call has returned an entry it found
C8_Witness ==
    \E c \in Callers :
        /\ pc[c] = "done"
        /\ loc[c].ret = "hit"
        /\ loc[c].r = resourceByType[loc[c].obj.kind]

\* C9: when RESTClientForGVK or RESTMapping fails in a getResource miss, the
\* call returns the error without a resourceMeta and the table is as before;
\* every entry of the table is a complete resourceMeta.
C9_FailureStoresNothing ==
    [][/\ \A c \in Callers :
              (/\ pc[c] \in {"restClient", "mapped"}
               /\ pc'[c] = "done"
               /\ loc'[c].err # Nil)
                  => /\ resourceByType' = resourceByType
                     /\ loc'[c].r = NoResource
       /\ \A k \in Registered :
              resourceByType'[k] # NoResource
                  => /\ resourceByType'[k].client > 0
                     /\ resourceByType'[k].mapping \in Mappings]_vars

\* a getResource miss has failed in RESTMapping and its type has no entry
C9_Witness ==
    \E c \in Callers :
        /\ pc[c] = "done"
        /\ loc[c].op = "getResource"
        /\ loc[c].ret = "mapping"
        /\ loc[c].err # Nil
        /\ resourceByType[loc[c].obj.kind] = NoResource

\* the two table keys that stand for the item type Widget
WidgetKeys == {Widget, WidgetList}

\* C10: the WidgetList value and the Widget value share one entry: once a
\* getResource call for either of them has stored its resourceMeta, a
\* getResource call for the other finds and returns that entry.
C10_ListSharesItemEntry ==
    [][\A c \in Callers :
          (/\ pc[c] = "lookup"
           /\ pc'[c] # "lookup"
           /\ loc[c].obj.kind \in WidgetKeys
           /\ \E k \in WidgetKeys : resourceByType[k] # NoResource)
              => /\ pc'[c] = "done"
                 /\ \E k \in WidgetKeys : /\ resourceByType[k] # NoResource
                                          /\ loc'[c].r = resourceByType[k]]_vars

\* a getResource call for a type that has an entry is at its table lookup
CachedLookup(d) ==
    /\ pc[d] = "lookup"
    /\ resourceByType[loc[d].obj.kind] # NoResource

\* C11: while a getResource miss is in apiutil.RESTClientForGVK the caller
\* holds no lock of the clientCache, so a getResource call for another type
\* that has an entry can take c.mu.RLock and return.
C11_ConstructorOutsideLock ==
    \A c \in Callers : \A d \in Callers \ {c} :
        (pc[c] = "restClient" /\ CachedLookup(d)) => cmuWriter = NoCaller

\* positions of a caller inside a RESTMapper method
InMapper == {"init", "initRun", "initWait", "rlock", "rcheck", "wlock",
             "wcheck", "reserve", "delay", "cancel", "denied", "reload",
             "final"}

\* C12: a getResource call for a type that has an entry can take c.mu.RLock
\* whatever the other callers are doing inside the RESTMapper: no query and
\* no reload in progress keeps c.mu locked.
C12_LocksIndependent ==
    \A c \in Callers : \A d \in Callers \ {c} :
        (pc[c] \in InMapper /\ CachedLookup(d)) => cmuWriter = NoCaller

\* newMapper() calls checkAndReload made at the instants a..b
RECURSIVE FetchesBetween(_, _)
FetchesBetween(a, b) ==
    IF a > b THEN 0 ELSE fetchLog[a] + FetchesBetween(a + 1, b)

\* C13: in every window of one second, which is RefillRate refill periods,
\* checkAndReload starts at most RefillRate directory fetches.
C13_AtMostRatePerSecond ==
    \A t \in 0..MaxTime :
        FetchesBetween(t, Min(t + RefillRate - 1, MaxTime)) <= RefillRate

\* positions at which a caller runs its callback against drm.staticMapper
Evaluating == {"rcheck", "wcheck", "final"}

\* C14: while a caller of checkAndReload is at its setStaticMapper() call no
\* other caller is evaluating a query or reloading; the snapshot is replaced
\* in one step, by that caller or by the initialisation, with a complete
\* snapshot.
C14_ReloadExcludesQueries ==
    [][/\ \A c \in Callers :
              pc'[c] = "reload"
                  => /\ muWriter' = c
                     /\ muReaders' = {}
                     /\ \A d \in Callers \ {c} :
                            pc'[d] \notin Evaluating \cup {"reload"}
       /\ staticMapper' # staticMapper
              => /\ staticMapper' \in Snapshots
                 /\ \/ built = "none"
                    \/ \E c \in Callers : /\ pc[c] \in {"reload", "initRun"}
                                          /\ pc'[c] # pc[c]]_vars

\* a reload is about to fetch while another caller's query waits for drm.mu
C14_Witness ==
    \E c \in Callers : \E d \in Callers \ {c} :
        /\ pc[c] = "reload"
        /\ pc[d] = "rlock"
        /\ staticMapper # NoMapper

\* C15: a caller that got "not found" under RLock and whose callback under
\* Lock gives another outcome, because the snapshot was replaced in between,
\* returns that outcome; it does not go on to checkRate and newMapper().
C15_RecheckResolvedSkipsReload ==
    [][\A c \in Callers :
          (/\ pc[c] = "wcheck"
           /\ pc'[c] # "wcheck"
           /\ loc[c].err = NoMatchError
           /\ Lookup(staticMapper, loc[c].q).err # NoMatchError)
              => /\ pc'[c] = "done"
                 /\ loc'[c].ret = "exclusive"
                 /\ loc'[c].err = Lookup(staticMapper, loc[c].q).err
                 /\ loc'[c].val = Lookup(staticMapper, loc[c].q).val
                 /\ limiter' = limiter]_vars

\* C16: checkRate takes one token from the bucket when it reserves, a
\* granted call leaves it at that, and a refused call puts the token back:
\* after res.Cancel() the bucket holds what it would hold at this instant had
\* the call not been made.
C16_DeniedRestoresToken ==
    [][\A c \in Callers :
          /\ (pc[c] = "reserve" /\ pc'[c] = "delay")
                 => limiter'.tokens = advance(limiter, now) - 1
          /\ (pc[c] = "delay" /\ pc'[c] = "reload") => limiter' = limiter
          /\ (pc[c] = "cancel" /\ pc'[c] = "denied")
                 => advance(limiter', now) =
                        Min(LimitSize,
                            limiter.tokens + 1 + (now - limiter.last))]_vars

\* C17: in a getResource miss apiutil.RESTClientForGVK has been called, with
\* or without success, only if c.mapper.RESTMapping has returned a mapping.
C17_MappingBeforeConstructor ==
    \A c \in Callers :
        (/\ loc[c].op = "getResource"
         /\ (loc[c].client # 0 \/ loc[c].ret = "client"))
            => loc[c].val \in Mappings

\* C18: the mapping of a resourceMeta is what one snapshot gave for its gvk
\* when RESTMapping evaluated the query; a getResource miss returns the
\* resourceMeta it built itself and leaves it in the table; replacing the
\* snapshot changes no table entry and no returned resourceMeta.
C18_HandleFromOneSnapshot ==
    [][/\ \A c \in Callers :
              (/\ pc[c] # "mapped"
               /\ pc'[c] = "mapped"
               /\ loc'[c].err = Nil)
                  => /\ loc'[c].val \in Mappings
                     /\ loc'[c].val = staticMapper'[loc[c].q]
       /\ \A c \in Callers :
              (/\ pc[c] = "mapped"
               /\ pc'[c] = "done"
               /\ loc'[c].err = Nil)
                  => /\ loc'[c].r =
                            [client |-> loc[c].client,
                             mapping |-> loc[c].val,
                             gvk |-> newResourceKind(loc[c].obj.kind,
                                                     loc[c].obj.isList)]
                     /\ resourceByType'[loc[c].obj.kind] = loc'[c].r
       /\ \A c \in Callers :
              (pc[c] = "done" /\ pc'[c] = "done") => loc'[c].r = loc[c].r
       /\ staticMapper' # staticMapper
              => /\ resourceByType' = resourceByType
                 /\ \A c \in Callers : loc'[c].r = loc[c].r]_vars

\* two getResource calls missed for the same type; each has returned the
\* resourceMeta it built and the table holds that of the second
C18_Witness ==
    \E c \in Callers : \E d \in Callers \ {c} :
        /\ pc[c] = "done" /\ pc[d] = "done"
        /\ loc[c].ret = "stored" /\ loc[d].ret = "stored"
        /\ loc[c].obj = loc[d].obj
        /\ loc[c].r.client < loc[d].r.client
        /\ loc[c].r.client = loc[c].client
        /\ loc[c].fetched = 1
        /\ resourceByType[loc[d].obj.kind] = loc[d].r

\* positions of a call up to its callback under RLock
BeforeResult == {"init", "initRun", "initWait", "rlock", "rcheck"}

\* C19: a query for an identifier the current snapshot resolves returns the
\* snapshot's answer from the callback under RLock: the call makes no
\* newMapper() call, takes no token and leaves the snapshot as it is, so
\* calls repeated against the same snapshot return the same answer.
C19_PresentIdIsReadOnly ==
    [][\A c \in Callers :
          (/\ pc[c] \in BeforeResult
           /\ pc'[c] # pc[c]
           /\ staticMapper # NoMapper
           /\ staticMapper[loc[c].q] \in Mappings)
              => /\ staticMapper' = staticMapper
                 /\ limiter' = limiter
                 /\ fetchLog' = fetchLog
                 /\ pc'[c] \in BeforeResult \cup {"done", "mapped"}
                 /\ pc'[c] \in {"done", "mapped"}
                        => /\ loc'[c].ret = "shared"
                           /\ loc'[c].err = Nil
                           /\ loc'[c].val = staticMapper[loc[c].q]
                           /\ loc'[c].fetched = 0]_vars

\* two calls for Widget have returned the same mapping from the callback
\* under RLock
C19_Witness ==
    \E c \in Callers : \E d \in Callers \ {c} :
        /\ pc[c] = "done" /\ pc[d] = "done"
        /\ loc[c].q = Widget /\ loc[d].q = Widget
        /\ loc[c].ret = "shared" /\ loc[d].ret = "shared"
        /\ loc[c].val = staticMapper[Widget]
        /\ loc[d].val = staticMapper[Widget]
        /\ limiter.tokens = LimitSize

\* C20: the setStaticMapper() call of NewDynamicRESTMapper or of the
\* initOnce closure takes no token from the limiter and is not a reload of
\* checkAndReload; when it fails in NewDynamicRESTMapper no mapper is
\* returned, so a mapper built without WithLazyDiscovery has a snapshot.
C20_InitialFetchBypassesGate ==
    [][/\ (\/ built = "none"
           \/ \E c \in Callers : pc[c] = "initRun" /\ pc'[c] # "initRun")
              => /\ limiter' = limiter
                 /\ fetchLog' = fetchLog
       /\ (built' = "ready" /\ ~lazy') => staticMapper' \in Snapshots
       /\ built' = "failed"
              => /\ staticMapper' = NoMapper
                 /\ \A c \in Callers : pc'[c] = "idle"]_vars

\* the first query of a lazy mapper has fetched the snapshot and the bucket
\* is still full
C20_Witness ==
    \E c \in Callers :
        /\ lazy
        /\ loc[c].initRole = "ran"
        /\ pc[c] = "rcheck"
        /\ staticMapper \in Snapshots
        /\ limiter.tokens = LimitSize
        /\ \A t \in 0..MaxTime : fetchLog[t] = 0

\* C21: whenever a caller runs its callback against drm.staticMapper the
\* mapper holds a snapshot; after a failed lazy initialisation no call gets
\* as far as the callback.
C21_EvaluatedOnlyWhenReady ==
    \A c \in Callers :
        pc[c] \in Evaluating \cup {"panicked"} => staticMapper # NoMapper

\* C22: every call that has been entered returns, and when it has returned
\* it holds neither drm.mu nor c.mu.
C22_EveryCallReturns ==
    \A c \in Callers :
        (pc[c] # "idle")
            ~> (/\ pc[c] = "done"
                /\ c \notin muReaders
                /\ muWriter # c
                /\ cmuWriter # c)

====
